---- MODULE Spec2Model ----
(***************************************************************************)
(* A model of mihomo-monitor (src/main.py): the delay-report parser, the   *)
(* auto-select decision, the one-shot commands and the monitor loop.       *)
(*                                                                         *)
(* JSON-like values are records [k, n, s, items]:                          *)
(*   k = "int"    n is the integer                                         *)
(*   k = "float"  n is the value in tenths (n = -5 is -0.5)                *)
(*   k = "inf"    float('inf') (json.loads accepts Infinity)               *)
(*   k = "nan"    float('nan')                                             *)
(*   k = "bool"   n is 0 or 1                                              *)
(*   k = "str"    s is the text                                            *)
(*   k = "null"   None                                                     *)
(*   k = "list"   items is the sequence of element values                  *)
(*   k = "dict"   items is the sequence of entries [key, keystr, val] in   *)
(*                insertion order; keystr = FALSE marks a key that is not  *)
(*                a str (possible for a Python dict, not for parsed JSON)  *)
(* Optional values are records [some, v].                                  *)
(***************************************************************************)
EXTENDS Integers, Sequences, FiniteSets, TLC

VARIABLES
    mode,        \* the command line's action: args.print_delays / print_current / auto_select / monitor
    json_output, \* args.json
    diff,        \* config.auto_select_diff_ms
    pc,          \* where the program is (the await it is suspended at)
    stop_event,  \* monitor_loop's asyncio.Event
    current,     \* the local `current` (Optional[str])
    delays,      \* the local `delays`: sorted, and from line 282 (210) on cut to ten entries
    snapshot,    \* auto_select_once's `delays` at lines 269-281: the whole sorted snapshot
    best,        \* auto_select_once's local `best`
    current_delay, \* auto_select_once's local `current_delay` (Optional[int])
    result,      \* what the invocation printed: [action, cur, cur_delay, best, best_delay, fmt]
    inflight,    \* controller requests issued and not yet answered
    netops,      \* controller requests issued by the one-shot invocation in progress
    put_status,  \* the set-active-proxy request of this invocation: none, sent, ok, http_error, transport_error
    cycles,      \* calls of auto_select_once made by monitor_loop
    switches,    \* set-active-proxy requests issued over the whole run
    ctl_now,     \* the controller's active proxy of the group (Optional[str])
    payload,     \* the delay report: parse_group_delays' argument / the controller's steady report
    parsed       \* parse_group_delays' outcome: [raised, shape, delays]

vars == <<mode, json_output, diff, pc, stop_event, current, delays, snapshot, best,
          current_delay, result, inflight, netops, put_status, cycles, switches, ctl_now,
          payload, parsed>>

----------------------------------------------------------------------------
(* Optional values *)

None == [some |-> FALSE, v |-> ""]
Some(x) == [some |-> TRUE, v |-> x]
NoneInt == [some |-> FALSE, v |-> 0]
SomeInt(n) == [some |-> TRUE, v |-> n]

(* JSON-like values *)

JInt(n) == [k |-> "int", n |-> n, s |-> "", items |-> <<>>]
JFloat(tenths) == [k |-> "float", n |-> tenths, s |-> "", items |-> <<>>]
JInf == [k |-> "inf", n |-> 0, s |-> "", items |-> <<>>]
JNaN == [k |-> "nan", n |-> 0, s |-> "", items |-> <<>>]
JBool(b) == [k |-> "bool", n |-> IF b THEN 1 ELSE 0, s |-> "", items |-> <<>>]
JStr(s) == [k |-> "str", n |-> 0, s |-> s, items |-> <<>>]
JNull == [k |-> "null", n |-> 0, s |-> "", items |-> <<>>]
JList(items) == [k |-> "list", n |-> 0, s |-> "", items |-> items]
JDict(entries) == [k |-> "dict", n |-> 0, s |-> "", items |-> entries]
Entry(key, val) == [key |-> key, keystr |-> TRUE, val |-> val]
NonStrEntry(key, val) == [key |-> key, keystr |-> FALSE, val |-> val]

ProxyDelay(name, delay_ms) == [name |-> name, delay_ms |-> delay_ms]
NoBest == ProxyDelay("", 0)

----------------------------------------------------------------------------
(* Python's int() on the strings the model uses: surrounding whitespace is  *)
(* stripped, a sign is accepted, anything else is a ValueError.             *)
NumericStrings ==
    ("0" :> 0) @@ ("800" :> 800) @@ ("1200" :> 1200) @@ ("-1" :> -1) @@ (" 50 " :> 50) @@ ("+7" :> 7)

\* int(value): [r |-> "int", v] on success, "none" for the TypeError/ValueError
\* that _to_int catches, "raise" for the OverflowError it does not catch.
ToInt_NoOverflow(value) ==
    CASE value.k = "int" -> [r |-> "int", v |-> value.n]
      [] value.k = "bool" -> [r |-> "int", v |-> value.n]
      [] value.k = "float" ->
            [r |-> "int", v |-> IF value.n >= 0 THEN value.n \div 10 ELSE -((-value.n) \div 10)]
      [] value.k = "str" /\ value.s \in DOMAIN NumericStrings ->
            [r |-> "int", v |-> NumericStrings[value.s]]
      [] OTHER -> [r |-> "none", v |-> 0]

_to_int(value) ==
    IF value.k = "inf" THEN [r |-> "raise", v |-> 0] ELSE ToInt_NoOverflow(value)

\* dict lookups on a sequence of entries
HasKey(entries, key) == \E i \in 1..Len(entries) : entries[i].keystr /\ entries[i].key = key
GetKey(entries, key) ==
    IF HasKey(entries, key)
    THEN (LET i == CHOOSE j \in 1..Len(entries) : entries[j].keystr /\ entries[j].key = key
          IN entries[i].val)
    ELSE JNull
AllKeysStr(entries) == \A i \in 1..Len(entries) : entries[i].keystr

\* One pass of the per-entry validation over pairs <<name, delay value>>:
\* unparseable and negative entries are dropped, an uncaught error aborts.
RECURSIVE Collect(_, _)
Collect(pairs, acc) ==
    IF pairs = <<>> \/ acc.raised THEN acc
    ELSE LET r == _to_int(pairs[1][2]) IN
         Collect(Tail(pairs),
                 CASE r.r = "raise" -> [raised |-> TRUE, out |-> <<>>]
                   [] r.r = "int" /\ r.v >= 0 ->
                        [raised |-> FALSE, out |-> Append(acc.out, ProxyDelay(pairs[1][1], r.v))]
                   [] OTHER -> acc)

MappingPairs(entries) == [i \in 1..Len(entries) |-> <<entries[i].key, entries[i].val>>]

\* the items of payload["proxies"] that pass the isinstance checks, as pairs
RECURSIVE ListPairs(_)
ListPairs(items) ==
    IF items = <<>> THEN <<>>
    ELSE LET item == items[1] IN
         IF item.k = "dict" /\ GetKey(item.items, "name").k = "str"
         THEN <<<<GetKey(item.items, "name").s, GetKey(item.items, "delay")>>>>
              \o ListPairs(Tail(items))
         ELSE ListPairs(Tail(items))

Raised == [raised |-> TRUE, shape |-> "raised", delays |-> <<>>]
Parsed(shape, ds) == [raised |-> FALSE, shape |-> shape, delays |-> ds]

\* lines 121-130: the single name/delay object, then the warning and []
ParseSingle(p) ==
    IF HasKey(p.items, "name") /\ HasKey(p.items, "delay") /\ GetKey(p.items, "name").k = "str"
    THEN LET r == _to_int(GetKey(p.items, "delay")) IN
         CASE r.r = "raise" -> Raised
           [] r.r = "int" /\ r.v >= 0 ->
                Parsed("single", <<ProxyDelay(GetKey(p.items, "name").s, r.v)>>)
           [] OTHER -> Parsed("fallback", <<>>)
    ELSE Parsed("fallback", <<>>)

\* lines 106-119: the 'proxies' list, which returns whatever survived
ParseProxies(p) ==
    IF HasKey(p.items, "proxies") /\ GetKey(p.items, "proxies").k = "list"
    THEN LET c == Collect(ListPairs(GetKey(p.items, "proxies").items), [raised |-> FALSE, out |-> <<>>])
         IN IF c.raised THEN Raised ELSE Parsed("proxies", c.out)
    ELSE ParseSingle(p)

\* lines 96-104: the whole object as a mapping, kept only when something survived
ParseMapping(p) ==
    IF AllKeysStr(p.items)
    THEN LET c == Collect(MappingPairs(p.items), [raised |-> FALSE, out |-> <<>>])
         IN CASE c.raised -> Raised
              [] c.out # <<>> -> Parsed("mapping", c.out)
              [] OTHER -> ParseProxies(p)
    ELSE ParseProxies(p)

ParseDelaysField_NeedsSurvivor(p) ==
    IF HasKey(p.items, "delays") /\ GetKey(p.items, "delays").k = "dict"
    THEN LET c == Collect(MappingPairs(GetKey(p.items, "delays").items), [raised |-> FALSE, out |-> <<>>])
         IN CASE c.raised -> Raised
              [] c.out # <<>> -> Parsed("delays", c.out)
              [] OTHER -> ParseMapping(p)
    ELSE ParseMapping(p)

\* lines 87-94: the 'delays' field, which returns whatever survived
ParseDelaysField(p) ==
    IF HasKey(p.items, "delays") /\ GetKey(p.items, "delays").k = "dict"
    THEN LET c == Collect(MappingPairs(GetKey(p.items, "delays").items), [raised |-> FALSE, out |-> <<>>])
         IN IF c.raised THEN Raised ELSE Parsed("delays", c.out)
    ELSE ParseMapping(p)

\* A payload that is not a dict has no keys(): `"delays" in payload` is False
\* or a TypeError, and payload.keys() / payload["delays"] raise.
parse_group_delays(p) ==
    IF p.k # "dict" THEN Raised ELSE ParseDelaysField(p)

----------------------------------------------------------------------------
(* list.sort(key=delay_ms): stable, ascending *)
RECURSIVE InsertSorted(_, _)
InsertSorted(sorted, e) ==
    IF sorted = <<>> THEN <<e>>
    ELSE IF e.delay_ms < sorted[1].delay_ms THEN <<e>> \o sorted
    ELSE <<sorted[1]>> \o InsertSorted(Tail(sorted), e)

RECURSIVE SortByDelay(_)
SortByDelay(ds) ==
    IF ds = <<>> THEN <<>>
    ELSE InsertSorted(SortByDelay(SubSeq(ds, 1, Len(ds) - 1)), ds[Len(ds)])

Take(seq, n) == SubSeq(seq, 1, IF Len(seq) < n THEN Len(seq) ELSE n)

----------------------------------------------------------------------------
(* Program constants and the bounds of the model *)

Floor == 1000       \* the absolute floor of the switch rule
TopN == 10          \* delays[:10]
MaxCycles == 3      \* decision cycles the model lets monitor_loop start
MaxItems == 2       \* longest 'proxies' list among the parser's inputs

Names == {"A", "B"}
Diffs == {-1, 0, 300}
DelaySamples == {800, 1000, 1001, 1200, 1500}

----------------------------------------------------------------------------
(* The controller's answers *)

OkNow(now) == [kind |-> "ok", now |-> now]
OkBody(body) == [kind |-> "ok", body |-> body]
FailKinds == {"transport_error", "http_error", "decode_error"}

\* dicts: every sequence of entries with distinct keys taken from `names`
RECURSIVE Mappings(_, _)
Mappings(names, vals) ==
    {<<>>} \cup UNION {{<<Entry(n, v)>> \o m : v \in vals, m \in Mappings(names \ {n}, vals)} : n \in names}

RECURSIVE SeqsUpTo(_, _)
SeqsUpTo(S, n) ==
    IF n = 0 THEN {<<>>}
    ELSE SeqsUpTo(S, n - 1) \cup {Append(q, e) : q \in {r \in SeqsUpTo(S, n - 1) : Len(r) = n - 1}, e \in S}

Item(name, delay) == JDict(<<Entry("name", name), Entry("delay", delay)>>)

\* The delay reports the controller answers with in the program's runs:
\* a 'delays' mapping, or a 'proxies' list of two items (names may repeat).
\* a report of more entries than delays[:10] keeps, the slowest proxy first
LongNames == <<"P0", "P1", "P2", "P3", "P4", "P5", "P6", "P7", "P8", "P9">>
LongReport ==
    JDict(<<Entry("delays",
                  JDict(<<Entry("A", JInt(2000))>>
                        \o [i \in DOMAIN LongNames |-> Entry(LongNames[i], JInt(800 + i))]))>>)

CtlVals == {JInt(d) : d \in DelaySamples \cup {-1}}
CtlReports ==
    {JDict(<<Entry("delays", JDict(m))>>) : m \in Mappings(Names, CtlVals)}
    \cup {JDict(<<Entry("proxies", JList(<<Item(JStr(n1), v1), Item(JStr(n2), v2)>>))>>) :
            n1 \in Names, n2 \in Names, v1 \in CtlVals, v2 \in CtlVals}
    \cup {JList(<<>>), LongReport}

CurrentVals == {None, Some(""), Some("Z")} \cup {Some(n) : n \in Names}
CurrentResponses == {OkNow(now) : now \in CurrentVals} \cup {[kind |-> k, now |-> None] : k \in FailKinds}
DelayResponses == {OkBody(p) : p \in CtlReports} \cup {[kind |-> k, body |-> JNull] : k \in FailKinds}
PutResponses == {"ok", "http_error", "transport_error"}

\* The parser's inputs
ParseVals ==
    {JInt(-1), JInt(0), JInt(800), JInt(1200), JStr("1200"), JStr("-1"), JStr(" 50 "), JStr("abc"),
     JNull, JFloat(-5), JFloat(8005), JInf, JNaN, JBool(TRUE), JList(<<>>), JDict(<<>>)}
ItemVals == {JInt(-1), JInt(800), JInt(1200), JStr("1200"), JStr("abc"), JNull, JInf}
ItemSet ==
    {JStr("A"), JNull, JDict(<<Entry("name", JStr("A"))>>), JDict(<<Entry("delay", JInt(800))>>)}
    \cup {Item(n, v) : n \in {JStr("A"), JStr("B"), JInt(1)}, v \in ItemVals}
Extras ==
    {<<>>, <<Entry("A", JInt(800))>>, <<Entry("proxies", JList(<<Item(JStr("B"), JInt(1200))>>))>>,
     <<Entry("name", JStr("B")), Entry("delay", JInt(800))>>}
ParsePayloads ==
    {JList(<<>>), JList(<<JStr("delays")>>), JStr("delays"), JStr("x"), JInt(5), JFloat(15), JBool(TRUE), JNull}
    \cup {JDict(<<Entry("delays", JDict(m))>> \o x) : m \in Mappings(Names, ParseVals), x \in Extras}
    \cup {JDict(<<Entry("delays", v)>> \o x) : v \in ParseVals \ {JDict(<<>>)}, x \in Extras}
    \cup {JDict(m) : m \in Mappings(Names, ParseVals)}
    \cup {JDict(<<Entry("proxies", JList(items))>>) : items \in SeqsUpTo(ItemSet, MaxItems)}
    \cup {JDict(<<Entry("A", v), Entry("proxies", JList(<<Item(JStr("B"), JInt(800))>>))>>) : v \in ParseVals}
    \cup {JDict(<<Entry("proxies", v)>>) : v \in ParseVals \ {JList(<<>>)}}
    \cup {JDict(<<Entry("name", n), Entry("delay", v)>>) : n \in {JStr("A"), JInt(1)}, v \in ParseVals}
    \cup {JDict(<<NonStrEntry("1", JInt(0)), Entry("name", n), Entry("delay", v)>>) :
            n \in {JStr("A"), JInt(1)}, v \in ParseVals}
    \cup {JDict(<<NonStrEntry("1", JInt(0)), Entry("name", JStr("A"))>>)}

----------------------------------------------------------------------------
(* get_group_delays: every failure of the request, of the decoding and of   *)
(* the parser is caught and becomes an empty list.                          *)
get_group_delays_nocatch(resp) ==
    IF resp.kind = "ok"
    THEN LET r == parse_group_delays(resp.body) IN [raised |-> r.raised, delays |-> r.delays]
    ELSE [raised |-> TRUE, delays |-> <<>>]

get_group_delays(resp) ==
    IF resp.kind = "ok"
    THEN LET r == parse_group_delays(resp.body) IN
         [raised |-> FALSE, delays |-> IF r.raised THEN <<>> ELSE r.delays]
    ELSE [raised |-> FALSE, delays |-> <<>>]

\* get_current_proxy and switch_proxy let every failure through
GetRaises(resp) == resp.kind # "ok"
PutRaises_NoStatusCheck(resp) == resp = "transport_error"
PutRaises(resp) == resp # "ok"

(* The decision of auto_select_once, lines 278-303 *)
Truthy(cur) == cur.some /\ cur.v # ""

\* {item.name: item.delay_ms for item in delays}.get(name): the last entry of a name wins
DelayMapGet(ds, name) ==
    IF \E i \in 1..Len(ds) : ds[i].name = name
    THEN LET last == CHOOSE i \in 1..Len(ds) :
                        /\ ds[i].name = name
                        /\ \A j \in 1..Len(ds) : ds[j].name = name => j <= i
         IN SomeInt(ds[last].delay_ms)
    ELSE NoneInt

CurrentDelay(cur, ds) == IF Truthy(cur) THEN DelayMapGet(ds, cur.v) ELSE NoneInt

should_switch_NoFloor(cur, b, cd, d) ==
    /\ cur.some /\ cd.some
    /\ b.name # cur.v /\ (cd.v - b.delay_ms) > d

should_switch(cur, b, cd, d) ==
    IF ~cur.some THEN FALSE
    ELSE IF ~cd.some THEN FALSE
    ELSE IF b.name # cur.v /\ cd.v > Floor /\ (cd.v - b.delay_ms) > d THEN TRUE
    ELSE FALSE

\* line 303: should_switch and best.name != current
DoSwitch(cur, b, cd, d) == should_switch(cur, b, cd, d) /\ (~cur.some \/ b.name # cur.v)

\* switch_proxy's request body, line 163: {"name": candidate.name}
SwitchPayloadName_Current(candidate, cur) == cur.v
SwitchPayloadName(candidate, cur) == candidate.name

Fmt == IF json_output THEN "json" ELSE "text"
NoResult == [action |-> "none", cur |-> None, cur_delay |-> NoneInt, best |-> "", best_delay |-> 0, fmt |-> ""]
Report(action, cur, cd, bname, bd) ==
    [action |-> action, cur |-> cur, cur_delay |-> cd, best |-> bname, best_delay |-> bd, fmt |-> Fmt]
NoData == Report("no_data", None, NoneInt, "", 0)

\* monitor_loop's `while not stop_event.is_set()`
LoopContinues_Always == TRUE
LoopContinues == ~stop_event

----------------------------------------------------------------------------
(* Program steps. A step runs from one await to the next.                   *)

\* auto_select_once is called: the current-proxy request goes out (line 267)
CallAutoSelect ==
    /\ current' = None /\ delays' = <<>> /\ result' = NoResult /\ put_status' = "none"
    /\ snapshot' = <<>> /\ best' = NoBest /\ current_delay' = NoneInt
    /\ netops' = 1 /\ inflight' = inflight + 1
    /\ pc' = "as_current"

\* auto_select_once returns: to main, or to monitor_loop's interval wait
ReturnPc == IF mode = "monitor" THEN "wait" ELSE "done"

StartPrintDelays ==
    /\ pc = "main" /\ mode = "print_delays"
    /\ pc' = "pd_delays" /\ netops' = 1 /\ inflight' = inflight + 1
    /\ UNCHANGED <<mode, json_output, diff, stop_event, current, delays, snapshot, best,
                   current_delay, result, put_status,
                   cycles, switches, ctl_now, payload, parsed>>

StartPrintCurrent ==
    /\ pc = "main" /\ mode = "print_current"
    /\ pc' = "pc_current" /\ netops' = 1 /\ inflight' = inflight + 1
    /\ UNCHANGED <<mode, json_output, diff, stop_event, current, delays, snapshot, best,
                   current_delay, result, put_status,
                   cycles, switches, ctl_now, payload, parsed>>

StartAutoSelect_Concurrent ==
    /\ pc = "main" /\ mode = "auto_select"
    /\ current' = None /\ delays' = <<>> /\ result' = NoResult /\ put_status' = "none"
    /\ snapshot' = <<>> /\ best' = NoBest /\ current_delay' = NoneInt
    /\ netops' = 2 /\ inflight' = inflight + 2
    /\ pc' = "as_current"
    /\ UNCHANGED <<mode, json_output, diff, stop_event, cycles, switches, ctl_now, payload, parsed>>

StartAutoSelect ==
    /\ pc = "main" /\ mode = "auto_select"
    /\ CallAutoSelect
    /\ UNCHANGED <<mode, json_output, diff, stop_event, cycles, switches, ctl_now, payload, parsed>>

\* monitor_loop up to its first await: the event, the handlers, the first cycle
StartMonitor ==
    /\ pc = "main" /\ mode = "monitor"
    /\ stop_event' = FALSE
    /\ cycles' = 1
    /\ CallAutoSelect
    /\ UNCHANGED <<mode, json_output, diff, switches, ctl_now, payload, parsed>>

\* print_delays_once, lines 208-223
PD_Delays(resp) ==
    /\ pc = "pd_delays"
    /\ LET ds == Take(SortByDelay(get_group_delays(resp).delays), TopN) IN
         /\ delays' = ds
         /\ result' = IF ds = <<>> THEN NoData ELSE Report("delays", None, NoneInt, ds[1].name, ds[1].delay_ms)
    /\ inflight' = inflight - 1
    /\ pc' = "done"
    /\ UNCHANGED <<mode, json_output, diff, stop_event, current, snapshot, best, current_delay,
                   netops, put_status, cycles, switches, ctl_now, payload, parsed>>

\* print_current_delay_once, lines 231-239
PC_Current(resp) ==
    /\ pc = "pc_current"
    /\ IF GetRaises(resp)
       THEN /\ pc' = "raised" /\ inflight' = inflight - 1
            /\ UNCHANGED <<current, result, netops, ctl_now>>
       ELSE /\ current' = resp.now /\ ctl_now' = resp.now
            /\ IF ~Truthy(resp.now)
               THEN /\ result' = Report("not_found", resp.now, NoneInt, "", 0)
                    /\ pc' = "done" /\ inflight' = inflight - 1 /\ UNCHANGED netops
               ELSE /\ pc' = "pc_delays" /\ netops' = netops + 1
                    /\ UNCHANGED <<inflight, result>>
    /\ UNCHANGED <<mode, json_output, diff, stop_event, delays, snapshot, best,
                   current_delay, put_status, cycles, switches,
                   payload, parsed>>

\* print_current_delay_once, lines 239-259
PC_Delays(resp) ==
    /\ pc = "pc_delays"
    /\ LET ds == get_group_delays(resp).delays
           cd == DelayMapGet(ds, current.v)
       IN /\ delays' = ds
          /\ result' = Report(IF cd.some THEN "current_delay" ELSE "delay_unavailable",
                              current, cd, "", 0)
    /\ inflight' = inflight - 1
    /\ pc' = "done"
    /\ UNCHANGED <<mode, json_output, diff, stop_event, current, snapshot, best, current_delay,
                   netops, put_status, cycles, switches, ctl_now, payload, parsed>>

\* auto_select_once, lines 267-268: the current proxy arrives, the delay request goes out
AS_Current(resp) ==
    /\ pc = "as_current"
    /\ IF GetRaises(resp)
       THEN /\ pc' = "raised" /\ inflight' = inflight - 1
            /\ UNCHANGED <<current, netops, ctl_now>>
       ELSE /\ current' = resp.now /\ ctl_now' = resp.now
            /\ pc' = "as_delays" /\ netops' = netops + 1
            /\ UNCHANGED inflight
    /\ UNCHANGED <<mode, json_output, diff, stop_event, delays, snapshot, best,
                   current_delay, result, put_status, cycles,
                   switches, payload, parsed>>

\* auto_select_once, lines 268-333: the report arrives, is sorted, and the decision
\* is taken; a decision to switch sends the set-active-proxy request
AS_Delays(resp) ==
    /\ pc = "as_delays"
    /\ LET g == get_group_delays(resp)
           ds == SortByDelay(g.delays)
       IN IF g.raised
          THEN /\ pc' = "raised" /\ inflight' = inflight - 1
               /\ UNCHANGED <<delays, snapshot, best, current_delay, result, netops,
                              put_status, switches>>
          ELSE /\ snapshot' = ds
               /\ IF ds = <<>>
                  THEN /\ delays' = ds
                       /\ result' = NoData
                       /\ pc' = ReturnPc /\ inflight' = inflight - 1
                       /\ UNCHANGED <<best, current_delay, netops, put_status, switches>>
                  ELSE LET b == ds[1]
                           cd == CurrentDelay(current, ds)
                       IN /\ best' = b
                          /\ current_delay' = cd
                          /\ delays' = Take(ds, TopN)
                          /\ IF DoSwitch(current, b, cd, diff)
                             THEN /\ pc' = "as_switch" /\ put_status' = "sent"
                                  /\ netops' = netops + 1 /\ switches' = switches + 1
                                  /\ UNCHANGED <<inflight, result>>
                             ELSE /\ result' = Report("kept", current, cd, b.name, b.delay_ms)
                                  /\ pc' = ReturnPc /\ inflight' = inflight - 1
                                  /\ UNCHANGED <<netops, put_status, switches>>
    /\ UNCHANGED <<mode, json_output, diff, stop_event, current, cycles, ctl_now, payload, parsed>>

\* auto_select_once, lines 304-333, with switch_proxy (157-169): the answer to the
\* set-active-proxy request
AS_Switch(resp) ==
    /\ pc = "as_switch"
    /\ put_status' = resp
    /\ inflight' = inflight - 1
    /\ ctl_now' = IF resp = "ok" THEN Some(SwitchPayloadName(best, current)) ELSE ctl_now
    /\ IF PutRaises(resp)
       THEN pc' = "raised" /\ UNCHANGED result
       ELSE /\ result' = Report("switched", current, current_delay, best.name, best.delay_ms)
            /\ pc' = ReturnPc
    /\ UNCHANGED <<mode, json_output, diff, stop_event, current, delays, snapshot, best,
                   current_delay, netops, cycles,
                   switches, payload, parsed>>

\* the top of monitor_loop's while, reached from the interval wait
LoopTop ==
    IF LoopContinues
    THEN /\ cycles < MaxCycles
         /\ cycles' = cycles + 1
         /\ CallAutoSelect
    ELSE /\ pc' = "done"
         /\ UNCHANGED <<current, delays, snapshot, best,
                   current_delay, result, put_status, netops, inflight, cycles>>

\* asyncio.wait_for(stop_event.wait(), ...) returns because the event is set
WaitStop ==
    /\ pc = "wait" /\ stop_event
    /\ LoopTop
    /\ UNCHANGED <<mode, json_output, diff, stop_event, switches, ctl_now, payload, parsed>>

\* the interval elapses with the event still clear: TimeoutError, continue
WaitTimeout ==
    /\ pc = "wait" /\ ~stop_event
    /\ LoopTop
    /\ UNCHANGED <<mode, json_output, diff, stop_event, switches, ctl_now, payload, parsed>>

\* SIGINT or SIGTERM: the handler _stop runs while the loop is suspended at an await
Signal ==
    /\ mode = "monitor"
    /\ pc \in {"as_current", "as_delays", "as_switch", "wait"}
    /\ ~stop_event
    /\ stop_event' = TRUE
    /\ UNCHANGED <<mode, json_output, diff, pc, current, delays, snapshot, best,
                   current_delay, result, inflight, netops,
                   put_status, cycles, switches, ctl_now, payload, parsed>>

Unparsed == [raised |-> FALSE, shape |-> "unset", delays |-> <<>>]

Init ==
    /\ mode \in {"print_delays", "print_current", "auto_select", "monitor"}
    /\ json_output \in BOOLEAN
    /\ diff \in Diffs
    /\ pc = "main"
    /\ stop_event = FALSE /\ current = None /\ delays = <<>> /\ result = NoResult
    /\ snapshot = <<>> /\ best = NoBest /\ current_delay = NoneInt
    /\ inflight = 0 /\ netops = 0 /\ put_status = "none" /\ cycles = 0 /\ switches = 0
    /\ ctl_now = None /\ payload = JNull /\ parsed = Unparsed

Program ==
    \/ StartPrintDelays
    \/ StartPrintCurrent
    \/ StartAutoSelect
    \/ StartMonitor
    \/ \E resp \in DelayResponses : PD_Delays(resp)
    \/ \E resp \in CurrentResponses : PC_Current(resp)
    \/ \E resp \in DelayResponses : PC_Delays(resp)
    \/ \E resp \in CurrentResponses : AS_Current(resp)
    \/ \E resp \in DelayResponses : AS_Delays(resp)
    \/ \E resp \in PutResponses : AS_Switch(resp)
    \/ WaitStop
    \/ WaitTimeout

Next == Program \/ Signal

Spec == Init /\ [][Next]_vars

\* Every request is answered or fails (the client's timeouts), the interval
\* elapses; nothing obliges a signal to arrive.
FairSpec == Spec /\ WF_vars(Program)

(* The steady controller: the same report in every cycle, every requested   *)
(* proxy becomes the active one.                                            *)
SteadyInit ==
    /\ mode = "monitor"
    /\ json_output \in BOOLEAN
    /\ diff \in Diffs
    /\ pc = "main"
    /\ stop_event = FALSE /\ current = None /\ delays = <<>> /\ result = NoResult
    /\ snapshot = <<>> /\ best = NoBest /\ current_delay = NoneInt
    /\ inflight = 0 /\ netops = 0 /\ put_status = "none" /\ cycles = 0 /\ switches = 0
    /\ ctl_now \in CurrentVals
    /\ payload \in CtlReports
    /\ parsed = Unparsed

SteadyNext ==
    \/ StartMonitor
    \/ AS_Current(OkNow(ctl_now))
    \/ AS_Delays(OkBody(payload))
    \/ AS_Switch("ok")
    \/ WaitStop
    \/ WaitTimeout
    \/ Signal

SteadySpec == SteadyInit /\ [][SteadyNext]_vars

----------------------------------------------------------------------------
(* The parser on its own: Init draws the payload, ParseCall applies the parser *)
ParseInit ==
    /\ mode = "parse" /\ json_output = FALSE /\ diff = 300 /\ pc = "parse_call"
    /\ stop_event = FALSE /\ current = None /\ delays = <<>>
    /\ snapshot = <<>> /\ best = NoBest /\ current_delay = NoneInt
    /\ result = NoResult
    /\ inflight = 0 /\ netops = 0 /\ put_status = "none" /\ cycles = 0 /\ switches = 0
    /\ ctl_now = None
    /\ payload \in ParsePayloads
    /\ parsed = Unparsed

ParseCall ==
    /\ pc = "parse_call"
    /\ parsed' = parse_group_delays(payload)
    /\ pc' = "parse_done"
    /\ UNCHANGED <<mode, json_output, diff, stop_event, current, delays, snapshot, best,
                   current_delay, result, inflight,
                   netops, put_status, cycles, switches, ctl_now, payload>>

ParseNext == ParseCall
ParseSpec == ParseInit /\ [][ParseNext]_vars

----------------------------------------------------------------------------
(* Properties *)

AutoMode == mode \in {"auto_select", "monitor"}
\* the delay report of the invocation in progress has been fetched and sorted
Fetched == netops >= 2 /\ pc \notin {"main", "as_current", "as_delays"}
Returned == pc \in {"done", "wait"}

MinDelay(ds) == CHOOSE d \in {ds[i].delay_ms : i \in 1..Len(ds)} :
                    \A i \in 1..Len(ds) : d <= ds[i].delay_ms
CurDelays == {snapshot[i].delay_ms : i \in {j \in 1..Len(snapshot) : snapshot[j].name = current.v}}
CurDelay == CHOOSE d \in CurDelays : \A e \in CurDelays : e <= d

\* the five conditions of the switch rule, read off the snapshot
SwitchCondition ==
    /\ current.some
    /\ CurDelays # {}
    /\ snapshot[1].delay_ms = MinDelay(snapshot) /\ snapshot[1].name # current.v
    /\ CurDelay > 1000
    /\ CurDelay - MinDelay(snapshot) > diff

\* C1: on a non-empty snapshot auto_select_once sends the set-active-proxy
\* request exactly when current is present, has a delay in the snapshot, is
\* not the minimum-delay entry, is slower than 1000 ms and is slower than the
\* minimum by more than auto_select_diff_ms; when it returns it has reported
\* 'switched' in that case and 'kept' (with no request sent) in every other.
C1_SwitchIffRule ==
    (AutoMode /\ Fetched /\ snapshot # <<>>) =>
        /\ (put_status # "none") <=> SwitchCondition
        /\ Returned => result.action = IF SwitchCondition THEN "switched" ELSE "kept"

C1_Witness ==
    /\ mode = "auto_select" /\ pc = "done" /\ diff = 300
    /\ result.action = "switched"
    /\ result.cur_delay = SomeInt(1200) /\ result.best_delay = 800

\* C2: 'switched' is reported only once the set-active-proxy request has
\* succeeded; while it is in flight nothing is reported, and when it fails
\* the error leaves auto_select_once with no 'switched' or 'kept' reported.
C2_SwitchedOnlyAfterPutOk ==
    AutoMode =>
        /\ result.action = "switched" => put_status = "ok"
        /\ put_status = "sent" => result.action = "none"
        /\ put_status \in {"http_error", "transport_error"} =>
                pc = "raised" /\ result.action = "none"

C2_Witness == AutoMode /\ put_status = "http_error" /\ pc = "raised"

NoNegative(ds) == \A i \in 1..Len(ds) : ds[i].delay_ms >= 0
NoDupNames(ds) == \A i, j \in 1..Len(ds) : ds[i].name = ds[j].name => i = j

\* C3: the list parse_group_delays returns holds no negative delay and no
\* name twice, whichever payload shape was taken.
C3_NoNegativeNoDuplicates ==
    pc = "parse_done" => NoNegative(parsed.delays) /\ NoDupNames(parsed.delays)

Survives(val) == _to_int(val).r = "int" /\ _to_int(val).v >= 0
HasDelaysDict == HasKey(payload.items, "delays") /\ GetKey(payload.items, "delays").k = "dict"
HasProxiesList == HasKey(payload.items, "proxies") /\ GetKey(payload.items, "proxies").k = "list"
AnySurvivor(entries) == \E i \in 1..Len(entries) : Survives(entries[i].val)
ParsedOk == pc = "parse_done" /\ ~parsed.raised

\* C4 as stated: a 'delays' mapping none of whose entries survives is not
\* committed to, parsing goes on to the later interpretations.
C4_DelaysFieldNeedsSurvivor ==
    (ParsedOk /\ HasDelaysDict /\ ~AnySurvivor(GetKey(payload.items, "delays").items)) =>
        parsed.shape # "delays"

\* C4 amended: the 'delays' field is committed to as soon as it is a mapping,
\* with no survivor too (the result is then empty); only the whole-object
\* mapping needs a survivor to commit; the 'proxies' list commits once it is a
\* list, with no survivor too.
C4_CommitRules ==
    ParsedOk =>
        /\ HasDelaysDict => parsed.shape = "delays"
        /\ parsed.shape = "mapping" => parsed.delays # <<>>
        /\ (~HasDelaysDict /\ HasProxiesList
              /\ ~(AllKeysStr(payload.items) /\ AnySurvivor(payload.items)))
            => parsed.shape = "proxies"

C4_Witness ==
    /\ ParsedOk /\ parsed.shape = "delays" /\ parsed.delays = <<>>
    /\ HasKey(payload.items, "A") /\ Survives(GetKey(payload.items, "A"))

\* C5: parse_group_delays never raises, whatever the payload.
C5_ParserNeverRaises == pc = "parse_done" => ~parsed.raised

\* C6: once the termination signal is received no decision cycle is started;
\* the signal itself aborts nothing; a signalled interval wait is left for the
\* loop's exit; and the loop eventually ends.
C6_StopEndsLoop ==
    /\ [][stop_event => cycles' = cycles]_vars
    /\ [][(~stop_event /\ stop_event') => (pc' = pc /\ inflight' = inflight)]_vars
    /\ [][(pc = "wait" /\ stop_event /\ pc' # pc) => pc' = "done"]_vars
    /\ (stop_event ~> (pc \in {"done", "raised"}))

C6_Witness == mode = "monitor" /\ stop_event /\ pc = "done" /\ cycles = 2 /\ result.action = "kept"

\* C7: an error leaving a decision cycle does not end monitor_loop.
C7_ErrorDoesNotEndLoop == mode = "monitor" => pc # "raised"

\* C8 as stated: never two requests in flight, at most two per invocation.
C8_AtMostTwoRequests == inflight <= 1 /\ netops <= 2

\* C8 amended: never two requests in flight; print_delays_once sends one
\* request, print_current_delay_once at most two, auto_select_once at most two
\* and a third, the set-active-proxy request, when it decides to switch.
C8_SequentialAtMostThree ==
    /\ inflight <= 1
    /\ netops <= 3
    /\ mode = "print_delays" => netops <= 1
    /\ mode = "print_current" => netops <= 2
    /\ netops = 3 => put_status # "none"

C8_Witness == mode = "auto_select" /\ pc = "done" /\ netops = 3 /\ inflight = 0

\* C9: on an empty snapshot (nothing valid reported, or the fetch failed)
\* auto_select_once does not raise, sends no set-active-proxy request and
\* reports 'no delay data'.
C9_EmptySnapshotNoData ==
    (AutoMode /\ Fetched /\ snapshot = <<>>) =>
        /\ pc # "raised"
        /\ put_status = "none" /\ netops = 2
        /\ result.action = "no_data"

C9_Witness ==
    /\ mode = "auto_select" /\ pc = "done" /\ current = Some("A")
    /\ snapshot = <<>> /\ delays = <<>> /\ result.action = "no_data"

\* C10: with a steady report and a controller that activates what is asked,
\* at most one set-active-proxy request is sent over the run, and every cycle
\* after the switch reports 'kept'.
C10_NoOscillation ==
    /\ switches <= 1
    /\ (switches = 1 /\ put_status = "none" /\ Returned) => result.action = "kept"

C10_Witness ==
    /\ switches = 1 /\ cycles = 3 /\ pc = "wait" /\ put_status = "none"
    /\ result.action = "kept"

====
